---- MODULE Spec2Model ----
(***************************************************************************)
(* simkube trace capture: the pod lifecycle watcher (handle_pod_event)     *)
(* and the owner-chain resolver (compute_owner_chain).                     *)
(*                                                                         *)
(* The watcher's behaviour is taken from the assertions and the mock-store *)
(* expectations of lib/rust/watch/tests/pod_watcher_test.rs; what no test  *)
(* exercises is taken from the design document and marked as such.         *)
(***************************************************************************)
EXTENDS Integers, Sequences, FiniteSets, TLC

(* ------------------------------ bounds -------------------------------- *)

\* Timestamps range over 1..MaxTs (the tests use 1234, 5678, 5555, 10000).
MaxTs == 2

TS == 1..MaxTs

\* Namespaced names of the pods of the cluster.
PodNames == {"p1", "p2"}

(* --------------------------- PodLifecycleData -------------------------- *)

\* crate::k8s::PodLifecycleData, a closed sum type; NoEntry stands for "the
\* index has no entry" (get_owned_pod_lifecycle returning None).
Empty == [tag |-> "Empty", start_ts |-> 0, end_ts |-> 0]

Running(s) == [tag |-> "Running", start_ts |-> s, end_ts |-> 0]

Finished(s, e) == [tag |-> "Finished", start_ts |-> s, end_ts |-> e]

NoEntry == [tag |-> "None", start_ts |-> 0, end_ts |-> 0]

(* ------------------------------- objects ------------------------------- *)

\* metav1::OwnerReference, identified by kind and name.
rsref == [kind |-> "ReplicaSet", name |-> "rs"]

deplref == [kind |-> "Deployment", name |-> "depl"]

\* owner_references of the pod objects: p1 is owned by a ReplicaSet, p2 (like
\* the tests' test_pod) has no owner.
PodOwners(name) == IF name = "p1" THEN <<rsref>> ELSE <<>>

\* Container statuses a pod object can carry: none (metadata only), a
\* running container (pods::add_running_container), a finished container
\* (pods::add_finished_container), or data that cannot be read.
PodStatuses ==
    {[kind |-> "none", start_ts |-> 0, end_ts |-> 0],
     [kind |-> "malformed", start_ts |-> 0, end_ts |-> 0]}
    \cup {[kind |-> "running", start_ts |-> s, end_ts |-> 0] : s \in TS}
    \cup {[kind |-> "finished", start_ts |-> se[1], end_ts |-> se[2]] :
            se \in {x \in TS \X TS : x[1] <= x[2]}}

Pods == [name : PodNames, status : PodStatuses]

\* What the API server answers to a fetch of an owner object.
ApiNames == {"rs", "depl"}

NotFound == [found |-> FALSE, owners |-> <<>>]

Found(owners) == [found |-> TRUE, owners |-> owners]

\* The API worlds: rs may be missing, ownerless or owned by the Deployment;
\* depl may be missing or ownerless (ownership is acyclic).
Worlds ==
    {[n \in ApiNames |-> IF n = "rs" THEN r ELSE d] :
        r \in {NotFound, Found(<<>>), Found(<<deplref>>)},
        d \in {NotFound, Found(<<>>)}}

(* -------------------------- owner-chain resolver ----------------------- *)

\* SizedCache::with_size(CACHE_SIZE): a map from namespaced name to chain.
\* The model holds four names at most, below any eviction.
EmptyCache == [n \in {} |-> <<>>]

cache_set(cache, name, chain) ==
    [n \in (DOMAIN cache) \cup {name} |-> IF n = name THEN chain ELSE cache[n]]

\* compute_owner_chain(apiset, obj, cache): the chain, the cache afterwards
\* and the names fetched from the API, or a failure.
RECURSIVE compute_owner_chain(_, _, _, _)

\* Variant: the chain is built farthest ancestor first.
compute_owner_chain_reversed(api, name, owners, cache) ==
    IF name \in DOMAIN cache
    THEN [ok |-> TRUE, chain |-> cache[name], cache |-> cache, fetched |-> <<>>]
    ELSE IF owners = <<>>
    THEN [ok |-> TRUE, chain |-> <<>>, cache |-> cache_set(cache, name, <<>>),
          fetched |-> <<>>]
    ELSE LET ref == owners[1]
             obj == api[ref.name]
             r == IF obj.found
                  THEN compute_owner_chain(api, ref.name, obj.owners, cache)
                  ELSE [ok |-> FALSE, chain |-> <<>>, cache |-> cache, fetched |-> <<>>]
         IN  [ok |-> r.ok, chain |-> IF r.ok THEN r.chain \o <<ref>> ELSE <<>>,
              cache |-> IF r.ok THEN cache_set(r.cache, name, r.chain \o <<ref>>)
                        ELSE r.cache,
              fetched |-> <<ref.name>> \o r.fetched]

\* Variant: the cache is not consulted for the object itself.
compute_owner_chain_uncached(api, name, owners, cache) ==
    IF owners = <<>>
    THEN [ok |-> TRUE, chain |-> <<>>, cache |-> cache_set(cache, name, <<>>),
          fetched |-> <<>>]
    ELSE LET ref == owners[1]
             obj == api[ref.name]
             r == IF obj.found
                  THEN compute_owner_chain(api, ref.name, obj.owners, cache)
                  ELSE [ok |-> FALSE, chain |-> <<>>, cache |-> cache, fetched |-> <<>>]
         IN  [ok |-> r.ok, chain |-> IF r.ok THEN <<ref>> \o r.chain ELSE <<>>,
              cache |-> IF r.ok THEN cache_set(r.cache, name, <<ref>> \o r.chain)
                        ELSE r.cache,
              fetched |-> <<ref.name>> \o r.fetched]

compute_owner_chain(api, name, owners, cache) ==
    IF name \in DOMAIN cache
    THEN [ok |-> TRUE, chain |-> cache[name], cache |-> cache, fetched |-> <<>>]
    ELSE IF owners = <<>>
    THEN [ok |-> TRUE, chain |-> <<>>, cache |-> cache_set(cache, name, <<>>),
          fetched |-> <<>>]
    ELSE LET ref == owners[1]
             obj == api[ref.name]
         IN  IF ~obj.found
             THEN [ok |-> FALSE, chain |-> <<>>, cache |-> cache,
                   fetched |-> <<ref.name>>]
             ELSE LET r == compute_owner_chain(api, ref.name, obj.owners, cache)
                      chain == <<ref>> \o r.chain
                  IN  IF ~r.ok
                      THEN [ok |-> FALSE, chain |-> <<>>, cache |-> r.cache,
                            fetched |-> <<ref.name>> \o r.fetched]
                      ELSE [ok |-> TRUE, chain |-> chain,
                            cache |-> cache_set(r.cache, name, chain),
                            fetched |-> <<ref.name>> \o r.fetched]

\* The chain of a pod that disappeared without an object (a resync): only
\* the cache can answer.
cached_owner_chain(name, cache) ==
    IF name \in DOMAIN cache
    THEN [ok |-> TRUE, chain |-> cache[name], cache |-> cache, fetched |-> <<>>]
    ELSE [ok |-> FALSE, chain |-> <<>>, cache |-> cache, fetched |-> <<>>]

(* ------------------------- pod lifecycle watcher ----------------------- *)

\* Unreadable container-status data is an observation of nothing.
malformed_lifecycle == Empty

\* container_lifecycle(pod): what the pod's container statuses say.
new_for(status) ==
    CASE status.kind = "none" -> Empty
      [] status.kind = "running" -> Running(status.start_ts)
      [] status.kind = "finished" -> Finished(status.start_ts, status.end_ts)
      [] OTHER -> malformed_lifecycle

\* Variant: a finished observation is taken again over a finished entry.
advances_again(observed, cur) ==
    \/ cur = NoEntry /\ observed # Empty
    \/ /\ cur.tag = "Running"
       /\ observed.tag = "Finished"
       /\ observed.start_ts = cur.start_ts
    \/ cur.tag = "Finished" /\ observed.tag = "Finished"

\* Variant: a finished observation ends the tracked run whatever its start.
advances_any_start(observed, cur) ==
    \/ cur = NoEntry /\ observed # Empty
    \/ cur.tag = "Running" /\ observed.tag = "Finished"

\* Variant: an empty first observation is taken too.
advances_empty(observed, cur) ==
    \/ cur = NoEntry
    \/ /\ cur.tag = "Running"
       /\ observed.tag = "Finished"
       /\ observed.start_ts = cur.start_ts

\* Whether an Applied observation moves the pod's tracked lifecycle on: a
\* first non-empty observation, or the end of the tracked run.
advances(observed, cur) ==
    \/ cur = NoEntry /\ observed # Empty
    \/ /\ cur.tag = "Running"
       /\ observed.tag = "Finished"
       /\ observed.start_ts = cur.start_ts

\* One record_pod_lifecycle(name, owners, data) call on the store.
record_pod_lifecycle(calls, name, owners, data) ==
    Append(calls, [name |-> name, owners |-> owners, data |-> data])

\* Variant: the index entry is written before the chain is resolved.
resolution_failed_dirty(st, r, name, entry) ==
    [st EXCEPT !.ok = FALSE, !.cache = r.cache, !.owned[name] = entry]

\* A failed resolution fails the event: neither the index nor the store is
\* written.
resolution_failed(st, r, name, entry) ==
    [st EXCEPT !.ok = FALSE, !.cache = r.cache]

\* Resolve the owner chain, then write the index entry and the store.
store_pod_lifecycle_data(api, st, name, has_pod, data, entry) ==
    LET r == IF has_pod
             THEN compute_owner_chain(api, name, PodOwners(name), st.cache)
             ELSE cached_owner_chain(name, st.cache)
    IN  IF ~r.ok
        THEN resolution_failed(st, r, name, entry)
        ELSE [st EXCEPT !.owned[name] = entry,
                        !.cache = r.cache,
                        !.calls = record_pod_lifecycle(st.calls, name, r.chain, data)]

\* Variant: the entry is dropped once its lifecycle is closed.
applied_entry_removed(observed) ==
    IF observed.tag = "Finished" THEN NoEntry ELSE observed

\* The index entry an accepted Applied observation leaves behind.
applied_entry(observed) == observed

\* Variant: a first observation is only tracked; the store is written when
\* the lifecycle closes.
handle_pod_applied_deferred(api, st, pod) ==
    LET observed == new_for(pod.status)
        cur == st.owned[pod.name]
    IN  IF ~advances(observed, cur) THEN st
        ELSE IF cur = NoEntry THEN [st EXCEPT !.owned[pod.name] = observed]
        ELSE store_pod_lifecycle_data(api, st, pod.name, TRUE, observed,
                                      applied_entry(observed))

handle_pod_applied(api, st, pod) ==
    LET observed == new_for(pod.status)
        cur == st.owned[pod.name]
    IN  IF advances(observed, cur)
        THEN store_pod_lifecycle_data(api, st, pod.name, TRUE, observed,
                                      applied_entry(observed))
        ELSE st

\* Variant: the later of the clock and the container's end closes the run.
guess_finished_lifecycle_latest(observed, cur, now) ==
    IF observed.tag = "Finished" /\ observed.start_ts = cur.start_ts
       /\ observed.end_ts >= now
    THEN observed
    ELSE Finished(cur.start_ts, now)

\* Variant: the clock closes every lifecycle.
guess_finished_lifecycle_clock(observed, cur, now) ==
    Finished(cur.start_ts, now)

\* The closed lifecycle of a tracked Running pod that is gone: the pod's own
\* finished container if it is the tracked run, else the tracked start and
\* the clock.
guess_finished_lifecycle(observed, cur, now) ==
    IF observed.tag = "Finished" /\ observed.start_ts = cur.start_ts
    THEN observed
    ELSE Finished(cur.start_ts, now)

\* Variant: an entry that is already closed is closed and recorded again.
handle_pod_deleted_refinish(api, st, name, has_pod, observed, now) ==
    LET cur == st.owned[name]
    IN  IF cur = NoEntry THEN st
        ELSE store_pod_lifecycle_data(api, st, name, has_pod,
                 guess_finished_lifecycle(observed, cur, now), NoEntry)

\* Variant: a pod that is not tracked is closed like a tracked one.
handle_pod_deleted_untracked(api, st, name, has_pod, observed, now) ==
    LET cur == st.owned[name]
    IN  IF cur.tag = "Finished" THEN [st EXCEPT !.owned[name] = NoEntry]
        ELSE store_pod_lifecycle_data(api, st, name, has_pod,
                 guess_finished_lifecycle(observed, cur, now), NoEntry)

handle_pod_deleted(api, st, name, has_pod, observed, now) ==
    LET cur == st.owned[name]
    IN  IF cur = NoEntry THEN st
        ELSE IF cur.tag = "Finished" THEN [st EXCEPT !.owned[name] = NoEntry]
        ELSE store_pod_lifecycle_data(api, st, name, has_pod,
                 guess_finished_lifecycle(observed, cur, now), NoEntry)

\* Event::Restarted, first half: every listed pod as an Applied event, in
\* order, up to the first failure.
RECURSIVE apply_listed(_, _, _, _)
apply_listed(api, st, list, i) ==
    IF i > Len(list) \/ ~st.ok THEN st
    ELSE apply_listed(api, handle_pod_applied(api, st, list[i]), list, i + 1)

\* Event::Restarted, second half: every tracked pod the list does not name is
\* gone; they are visited in the map's iteration order.
RECURSIVE delete_unlisted(_, _, _, _, _, _)
delete_unlisted(api, st, listed, order, i, now) ==
    IF i > Len(order) \/ ~st.ok THEN st
    ELSE delete_unlisted(api,
             IF order[i] \in listed THEN st
             ELSE handle_pod_deleted(api, st, order[i], FALSE, Empty, now),
             listed, order, i + 1, now)

\* Variant: the pods the list does not name stay tracked.
handle_pod_restarted_listed_only(api, st, list, order, now) ==
    apply_listed(api, st, list, 1)

handle_pod_restarted(api, st, list, order, now) ==
    delete_unlisted(api, apply_listed(api, st, list, 1),
                    {list[i].name : i \in 1..Len(list)}, order, 1, now)

(* -------------------------------- state -------------------------------- *)

VARIABLES
    owned_pods,     \* PodWatcher.owned_pods: the index, name -> lifecycle
    owners_cache,   \* PodWatcher.owners_cache
    clock,          \* the injected clock's reading
    pc,             \* the watcher's loop: idle, handling (an event), done
    evt,            \* the event taken from the stream
    calls,          \* the store's record_pod_lifecycle calls of that event
    pre,            \* the index before that event
    result,         \* whether handle_pod_event returned Ok
    oc_in,          \* compute_owner_chain on its own: the arguments
    oc_out          \* compute_owner_chain on its own: the outcome

\* The snapshot command (cmd): the orchestrator, its two watcher tasks and
\* the store they share.
VARIABLES
    main_pc,        \* the statement cmd is about to execute
    task,           \* per watcher task: position, abort flag, writes made
    ready_rx,       \* per watcher: messages waiting in its readiness channel
    signals,        \* the readiness signals sent so far, in order
    store_lock,     \* the holder of the store's mutex
    trace_store,    \* the store: its entries, in the order they were begun
    completed,      \* the writes that ran to their end, in order
    trail,          \* the statements cmd has executed
    exported        \* what export returned to cmd

\* export on its own.
VARIABLES
    ex_store,       \* the store export is called on
    ex_args,        \* start_ts, end_ts and the filters
    ex_out          \* what each call returned

watcher_vars == <<owned_pods, owners_cache, clock, pc, evt, calls, pre, result>>

chain_vars == <<oc_in, oc_out>>

snap_vars == <<main_pc, task, ready_rx, signals, store_lock, trace_store, completed, trail, exported>>

export_vars == <<ex_store, ex_args, ex_out>>

vars == <<watcher_vars, chain_vars, snap_vars, export_vars>>

NoEvent == [kind |-> "none", pods |-> <<>>]

NothingTracked == [n \in PodNames |-> NoEntry]

NoOutcome == [done |-> FALSE, ok |-> FALSE, chain |-> <<>>, cache |-> EmptyCache,
              fetched |-> <<>>]

\* The API worlds the watcher runs against: the whole chain is there, the
\* ReplicaSet is gone, or the Deployment is gone.
WatchWorlds ==
    {w \in Worlds : w["rs"] \in {NotFound, Found(<<deplref>>)}
                    /\ (w["rs"] = NotFound => w["depl"] = NotFound)}

\* Every input of the resolver run on its own.
ChainNames == {"p1", "rs", "depl"}

Chains == {<<>>, <<rsref>>, <<deplref>>, <<rsref, deplref>>}

Caches == UNION {[d -> Chains] : d \in SUBSET ChainNames}

ChainInputs == [name : {"p1"}, owners : Chains, cache : Caches, api : Worlds]

\* PodWatcher::new: nothing tracked, nothing cached.
(* ------------------------- the snapshot command ------------------------ *)

MaxWrites == 2

\* The watcher tasks: the dynamic object watcher and the pod watcher.
Tasks == {"do", "pod"}

\* cmd's statements that involve the tasks and the store, in program order.
cmd ==
    << [op |-> "spawn", t |-> "do"],  [op |-> "spawn", t |-> "pod"],
       [op |-> "recv",  t |-> "do"],  [op |-> "recv",  t |-> "pod"],
       [op |-> "abort", t |-> "do"],  [op |-> "abort", t |-> "pod"],
       [op |-> "await", t |-> "do"],  [op |-> "await", t |-> "pod"],
       [op |-> "export", t |-> "store"] >>

\* A task is: unspawned; waiting (suspended on its watch stream); resolving
\* (suspended in the middle of an event, on the API); pending (running, about
\* to lock the store); locked (holding the lock); half (holding the lock, its
\* write begun); cancelled.
NewTask == [st |-> "unspawned", aborted |-> FALSE, writes |-> 0, cut |-> "none"]

\* tokio::spawn: the task starts to run and suspends on its stream.
spawn(tk) == [tk EXCEPT !.st = "waiting"]

\* Receiver::recv blocks until a message waits in the channel or the sender
\* is gone with its task.
recv_returns(msgs, tk) == msgs > 0 \/ tk.st = "cancelled"

\* Variant: the task is left to run.
abort_noop(tk) == tk

\* JoinHandle::abort: the task is marked; it ends where it next suspends.
abort(tk) == [tk EXCEPT !.aborted = TRUE]

\* Variant: the handle is dropped instead of awaited.
joined_detached(tk) == TRUE

\* JoinHandle.await returns when the task is over.
joined(tk) == tk.st = "cancelled"

\* Variant: the store is shared without its mutex.
lock_free_always(owner) == TRUE

\* Mutex::lock returns when nobody holds the mutex.
lock_free(owner) == owner = "none"

\* Variant: a task is cancelled only while it waits on its stream.
at_await_stream_only(tk) == tk.st = "waiting"

\* The points where a task is suspended, and where an abort takes it.
at_await(tk) == tk.st \in {"waiting", "resolving"}

NoData == [read |-> FALSE, entries |-> <<>>]

InitSnapshot ==
    /\ main_pc = 1
    /\ task = [t \in Tasks |-> NewTask]
    /\ ready_rx = [t \in Tasks |-> 0]
    /\ signals = <<>>
    /\ store_lock = "none"
    /\ trace_store = <<>>
    /\ completed = <<>>
    /\ trail = <<>>
    /\ exported = NoData

(* ------------------------------- export ------------------------------- *)

MaxEntries == 2

MaxCalls == 2

dsref == [kind |-> "DaemonSet", name |-> "ds"]

\* What the store holds entries about: pods (with their owner chain) and
\* tracked objects.
Subjects ==
    { [kind |-> "pod", ns |-> "default", labels |-> {"app"}, owners |-> <<rsref, deplref>>],
      [kind |-> "pod", ns |-> "kube-system", labels |-> {"app"}, owners |-> <<rsref, deplref>>],
      [kind |-> "pod", ns |-> "default", labels |-> {"app", "debug"}, owners |-> <<rsref, deplref>>],
      [kind |-> "pod", ns |-> "default", labels |-> {"app"}, owners |-> <<dsref>>],
      [kind |-> "object", ns |-> "kube-system", labels |-> {"app"}, owners |-> <<>>] }

\* A pod's entry is its Finished interval; an object event has one timestamp.
StoreEntries ==
    { [subject |-> s, start_ts |-> se[1], end_ts |-> se[2]] :
        s \in Subjects, se \in {x \in TS \X TS : x[1] <= x[2]} }
    \ { e \in [subject : Subjects, start_ts : TS, end_ts : TS] :
            e.subject.kind = "object" /\ e.start_ts # e.end_ts }

\* ExportFilters::new(excluded_namespaces, excluded_labels, exclude_daemonsets)
ExportFilters(namespaces, labels, daemonsets) ==
    [excluded_namespaces |-> namespaces, excluded_labels |-> labels,
     exclude_daemonsets |-> daemonsets]

overlaps(e, start_ts, end_ts) == e.start_ts <= end_ts /\ e.end_ts >= start_ts

\* Variant: pods of a DaemonSet pass.
filtered_out_by_name_only(e, filters) ==
    \/ e.subject.ns \in filters.excluded_namespaces
    \/ e.subject.labels \cap filters.excluded_labels # {}

filtered_out(e, filters) ==
    \/ e.subject.ns \in filters.excluded_namespaces
    \/ e.subject.labels \cap filters.excluded_labels # {}
    \/ /\ filters.exclude_daemonsets
       /\ e.subject.kind = "pod"
       /\ \E i \in 1..Len(e.subject.owners) : e.subject.owners[i].kind = "DaemonSet"

\* e is put behind the records that are not later than it.
RECURSIVE insert_by_time(_,_)
insert_by_time(records, e) ==
    IF records = <<>> THEN <<e>>
    ELSE IF Head(records).start_ts <= e.start_ts
         THEN <<Head(records)>> \o insert_by_time(Tail(records), e)
         ELSE <<e>> \o records

RECURSIVE collect(_,_,_,_)
collect(entries, start_ts, end_ts, filters) ==
    IF entries = <<>> THEN <<>>
    ELSE LET e == entries[Len(entries)]
             rest == collect(SubSeq(entries, 1, Len(entries) - 1), start_ts, end_ts, filters)
         IN  IF overlaps(e, start_ts, end_ts) /\ ~filtered_out(e, filters)
             THEN insert_by_time(rest, e)
             ELSE rest

\* Variant: what is exported is taken out of the store.
export_draining(store, start_ts, end_ts, filters) ==
    LET records == collect(store, start_ts, end_ts, filters)
    IN  [store |-> SelectSeq(store,
                       LAMBDA e : ~(overlaps(e, start_ts, end_ts) /\ ~filtered_out(e, filters))),
         blob |-> [header |-> "trace", records |-> records]]

\* TraceStore::export(start_ts, end_ts, filters): the store after the call
\* and the blob returned.
export(store, start_ts, end_ts, filters) ==
    [store |-> store,
     blob |-> [header |-> "trace", records |-> collect(store, start_ts, end_ts, filters)]]

\* The store's entries in the order they were recorded: an entry is recorded
\* when it ends.
Stores ==
    {s \in UNION {[1..n -> StoreEntries] : n \in 0..MaxEntries} :
        \A i \in 1..Len(s) - 1 : s[i].end_ts <= s[i + 1].end_ts}

\* cmd's filters, with and without namespaces to exclude, and others.
FilterChoices ==
    { ExportFilters({}, {}, TRUE),
      ExportFilters({"kube-system"}, {}, TRUE),
      ExportFilters({}, {"debug"}, FALSE) }

\* The window is one cmd can ask for: it does not end before it starts.
ExportArgs ==
    {a \in [store : Stores, start_ts : TS, end_ts : TS, filters : FilterChoices] :
        a.start_ts <= a.end_ts}

NoExport == [store |-> <<>>, start_ts |-> 1, end_ts |-> 1, filters |-> ExportFilters({}, {}, FALSE)]

IdleExport ==
    /\ ex_args = NoExport
    /\ ex_store = <<>>
    /\ ex_out = <<>>

InitWatcher ==
    /\ owned_pods = NothingTracked
    /\ owners_cache = EmptyCache
    /\ clock = 1
    /\ pc = "idle"
    /\ evt = NoEvent
    /\ calls = <<>>
    /\ pre = NothingTracked
    /\ result = TRUE

IdleChain ==
    /\ oc_in = CHOOSE i \in ChainInputs : TRUE
    /\ oc_out = NoOutcome

Init ==
    /\ InitWatcher
    /\ IdleChain
    /\ InitSnapshot
    /\ IdleExport

\* The watch stream's resync lists: pods of distinct names.
PodLists ==
    {l \in UNION {[1..n -> Pods] : n \in 0..Cardinality(PodNames)} :
        \A i, j \in 1..Len(l) : i # j => l[i].name # l[j].name}

Events ==
    {[kind |-> k, pods |-> <<pod>>] : k \in {"Applied", "Deleted"}, pod \in Pods}
    \cup {[kind |-> "Restarted", pods |-> l] : l \in PodLists}

\* The iteration orders of the index.
Orders ==
    {o \in [1..Cardinality(PodNames) -> PodNames] :
        \A i, j \in 1..Cardinality(PodNames) : i # j => o[i] # o[j]}

\* The orders that can differ in effect: with fewer than two tracked pods
\* off the list, one order stands for all.
OrdersFor(list) ==
    IF Cardinality({n \in PodNames : owned_pods[n] # NoEntry
                      /\ \A i \in 1..Len(list) : list[i].name # n}) < 2
    THEN {CHOOSE o \in Orders : TRUE}
    ELSE Orders

\* The watch stream yields its next event; the clock reads what it reads by
\* then (MockUtcClock::set in the tests).
StreamNext(e, t) ==
    /\ pc = "idle"
    /\ pc' = "handling"
    /\ evt' = e
    /\ clock' = t
    /\ UNCHANGED <<owned_pods, owners_cache, calls, pre, result, oc_in, oc_out>>
    /\ UNCHANGED <<snap_vars, export_vars>>

Start == [owned |-> owned_pods, cache |-> owners_cache, calls |-> <<>>, ok |-> TRUE]

Finish(r) ==
    /\ owned_pods' = r.owned
    /\ owners_cache' = r.cache
    /\ calls' = r.calls
    /\ result' = r.ok
    /\ pre' = owned_pods
    /\ pc' = "done"
    /\ UNCHANGED <<clock, evt, oc_in, oc_out, snap_vars, export_vars>>

\* handle_pod_event(Event::Applied(pod))
Applied ==
    /\ pc = "handling" /\ evt.kind = "Applied"
    /\ \E api \in WatchWorlds :
        Finish(handle_pod_applied(api, Start, evt.pods[1]))

\* handle_pod_event(Event::Deleted(pod))
Deleted ==
    /\ pc = "handling" /\ evt.kind = "Deleted"
    /\ \E api \in WatchWorlds :
        Finish(handle_pod_deleted(api, Start, evt.pods[1].name, TRUE,
                                  new_for(evt.pods[1].status), clock))

\* handle_pod_event(Event::Restarted(list))
Restarted ==
    /\ pc = "handling" /\ evt.kind = "Restarted"
    /\ \E api \in WatchWorlds, order \in OrdersFor(evt.pods) :
        Finish(handle_pod_restarted(api, Start, evt.pods, order, clock))

\* The loop goes back to wait on the stream; the bookkeeping of the event
\* that was handled is dropped.
Await ==
    /\ pc = "done"
    /\ pc' = "idle"
    /\ evt' = NoEvent
    /\ calls' = <<>>
    /\ pre' = NothingTracked
    /\ result' = TRUE
    /\ UNCHANGED <<owned_pods, owners_cache, clock, oc_in, oc_out>>
    /\ UNCHANGED <<snap_vars, export_vars>>

Next ==
    \/ \E e \in Events, t \in TS : StreamNext(e, t)
    \/ Applied
    \/ Deleted
    \/ Restarted
    \/ Await

Spec == Init /\ [][Next]_vars

\* The resolver on its own: the arguments are drawn, then it is called.
InitChain ==
    /\ InitWatcher
    /\ oc_in \in ChainInputs
    /\ oc_out = NoOutcome
    /\ InitSnapshot
    /\ IdleExport

OcResolve ==
    /\ ~oc_out.done
    /\ oc_out' = [done |-> TRUE] @@
                 compute_owner_chain(oc_in.api, oc_in.name, oc_in.owners, oc_in.cache)
    /\ UNCHANGED <<oc_in, watcher_vars, snap_vars, export_vars>>

NextChain == OcResolve

SpecChain == InitChain /\ [][NextChain]_vars

(* --------------------------- cmd and its tasks ------------------------- *)

At(op, t) == main_pc <= Len(cmd) /\ cmd[main_pc] = [op |-> op, t |-> t]

\* cmd goes on to its next statement.
Advance(ok) ==
    /\ main_pc' = main_pc + 1
    /\ trail' = Append(trail, [op |-> cmd[main_pc].op, t |-> cmd[main_pc].t, ok |-> ok])

\* tokio::spawn(watcher.start())
MainSpawn(t) ==
    /\ At("spawn", t)
    /\ task' = [task EXCEPT ![t] = spawn(@)]
    /\ Advance(TRUE)
    /\ UNCHANGED <<ready_rx, signals, store_lock, trace_store, completed, exported>>
    /\ UNCHANGED <<watcher_vars, chain_vars, export_vars>>

\* let _ = ready_rx.recv()
MainRecv(t) ==
    /\ At("recv", t)
    /\ recv_returns(ready_rx[t], task[t])
    /\ ready_rx' = [ready_rx EXCEPT ![t] = IF @ > 0 THEN @ - 1 ELSE @]
    /\ Advance(ready_rx[t] > 0)
    /\ UNCHANGED <<task, signals, store_lock, trace_store, completed, exported>>
    /\ UNCHANGED <<watcher_vars, chain_vars, export_vars>>

\* handle.abort()
MainAbort(t) ==
    /\ At("abort", t)
    /\ task' = [task EXCEPT ![t] = abort(@)]
    /\ Advance(TRUE)
    /\ UNCHANGED <<ready_rx, signals, store_lock, trace_store, completed, exported>>
    /\ UNCHANGED <<watcher_vars, chain_vars, export_vars>>

\* let _ = handle.await
MainJoin(t) ==
    /\ At("await", t)
    /\ joined(task[t])
    /\ Advance(TRUE)
    /\ UNCHANGED <<task, ready_rx, signals, store_lock, trace_store, completed, exported>>
    /\ UNCHANGED <<watcher_vars, chain_vars, export_vars>>

\* store.lock().unwrap().export(start_ts, end_ts, &filters)
MainExport ==
    /\ At("export", "store")
    /\ lock_free(store_lock)
    /\ exported' = [read |-> TRUE, entries |-> trace_store]
    /\ Advance(TRUE)
    /\ UNCHANGED <<task, ready_rx, signals, store_lock, trace_store, completed>>
    /\ UNCHANGED <<watcher_vars, chain_vars, export_vars>>

Main ==
    \/ \E t \in Tasks : MainSpawn(t)
    \/ \E t \in Tasks : MainRecv(t)
    \/ \E t \in Tasks : MainAbort(t)
    \/ \E t \in Tasks : MainJoin(t)
    \/ MainExport

Signalled(t) == \E i \in 1..Len(signals) : signals[i] = t

\* The initial listing is over: the task sends its readiness signal, once.
TaskSignal(t) ==
    /\ task[t].st = "waiting" /\ ~task[t].aborted
    /\ ~Signalled(t)
    /\ ready_rx' = [ready_rx EXCEPT ![t] = @ + 1]
    /\ signals' = Append(signals, t)
    /\ UNCHANGED <<main_pc, task, store_lock, trace_store, completed, trail, exported>>
    /\ UNCHANGED <<watcher_vars, chain_vars, export_vars>>

\* The stream yields an event: the task runs, up to the store or up to a
\* call of the API, where it suspends.
TaskEvent(t, st) ==
    /\ task[t].st = "waiting" /\ ~task[t].aborted
    /\ task[t].writes < MaxWrites
    /\ task' = [task EXCEPT ![t].st = st]
    /\ UNCHANGED <<main_pc, ready_rx, signals, store_lock, trace_store, completed, trail, exported>>
    /\ UNCHANGED <<watcher_vars, chain_vars, export_vars>>

\* The API answers: the task runs on.
TaskResume(t) ==
    /\ task[t].st = "resolving" /\ ~task[t].aborted
    /\ task' = [task EXCEPT ![t].st = "pending"]
    /\ UNCHANGED <<main_pc, ready_rx, signals, store_lock, trace_store, completed, trail, exported>>
    /\ UNCHANGED <<watcher_vars, chain_vars, export_vars>>

\* store.lock()
TaskLock(t) ==
    /\ task[t].st = "pending"
    /\ lock_free(store_lock)
    /\ store_lock' = t
    /\ task' = [task EXCEPT ![t].st = "locked"]
    /\ UNCHANGED <<main_pc, ready_rx, signals, trace_store, completed, trail, exported>>
    /\ UNCHANGED <<watcher_vars, chain_vars, export_vars>>

\* The mutator's first update of the store's structures.
TaskWriteBegin(t) ==
    /\ task[t].st = "locked"
    /\ trace_store' = Append(trace_store,
                             [by |-> t, n |-> task[t].writes + 1, whole |-> FALSE])
    /\ task' = [task EXCEPT ![t].st = "half"]
    /\ UNCHANGED <<main_pc, ready_rx, signals, store_lock, completed, trail, exported>>
    /\ UNCHANGED <<watcher_vars, chain_vars, export_vars>>

\* The mutator's last update; the lock is released, and the task goes back
\* to wait on its stream.
TaskWriteEnd(t) ==
    /\ task[t].st = "half"
    /\ trace_store' = [i \in DOMAIN trace_store |->
                          IF trace_store[i].by = t /\ ~trace_store[i].whole
                          THEN [trace_store[i] EXCEPT !.whole = TRUE]
                          ELSE trace_store[i]]
    /\ completed' = Append(completed, [by |-> t, n |-> task[t].writes + 1, whole |-> TRUE])
    /\ store_lock' = "none"
    /\ task' = [task EXCEPT ![t].st = "waiting", ![t].writes = @ + 1]
    /\ UNCHANGED <<main_pc, ready_rx, signals, trail, exported>>
    /\ UNCHANGED <<watcher_vars, chain_vars, export_vars>>

\* An aborted task ends where it is suspended.
TaskCancel(t) ==
    /\ task[t].aborted
    /\ at_await(task[t])
    /\ task' = [task EXCEPT ![t].st = "cancelled", ![t].cut = task[t].st]
    /\ UNCHANGED <<main_pc, ready_rx, signals, store_lock, trace_store, completed, trail, exported>>
    /\ UNCHANGED <<watcher_vars, chain_vars, export_vars>>

\* What the runtime does with a task that can run.
TaskRun(t) ==
    \/ TaskLock(t)
    \/ TaskWriteBegin(t)
    \/ TaskWriteEnd(t)
    \/ TaskCancel(t)

\* What the cluster makes a task do.
TaskStream(t) ==
    \/ TaskSignal(t)
    \/ \E st \in {"resolving", "pending"} : TaskEvent(t, st)
    \/ TaskResume(t)

NextSnapshot ==
    \/ Main
    \/ \E t \in Tasks : TaskRun(t)
    \/ \E t \in Tasks : TaskStream(t)

SpecSnapshot == Init /\ [][NextSnapshot]_vars

\* The runtime runs cmd and every task that can run.
SpecSnapshotLive ==
    /\ Init
    /\ [][NextSnapshot]_vars
    /\ WF_vars(Main)
    /\ \A t \in Tasks : WF_vars(TaskRun(t))

(* ------------------------- export on its own --------------------------- *)

InitExport ==
    /\ InitWatcher
    /\ IdleChain
    /\ InitSnapshot
    /\ ex_args \in ExportArgs
    /\ ex_store = ex_args.store
    /\ ex_out = <<>>

ExportCall ==
    /\ Len(ex_out) < MaxCalls
    /\ LET r == export(ex_store, ex_args.start_ts, ex_args.end_ts, ex_args.filters)
       IN  /\ ex_store' = r.store
           /\ ex_out' = Append(ex_out, r.blob)
    /\ UNCHANGED <<ex_args, watcher_vars, chain_vars, snap_vars>>

NextExport == ExportCall

SpecExport == InitExport /\ [][NextExport]_vars

(* ------------------------------ properties ----------------------------- *)

Handled(kind) == pc = "done" /\ evt.kind = kind

ThePod == evt.pods[1]

Observed == new_for(ThePod.status)

Listed == {evt.pods[i].name : i \in 1..Len(evt.pods)}

ObservedOf(i) == new_for(evt.pods[i].status)

CallsOf(n) == SelectSeq(calls, LAMBDA c : c.name = n)

Call(n, data) == [name |-> n, owners |-> owners_cache[n], data |-> data]

RecordedFinished(n) ==
    \E i \in 1..Len(calls) : calls[i].name = n /\ calls[i].data.tag = "Finished"

(* C1: a pod's closed lifecycle is recorded once. In one event a pod is
   recorded at most once; a pod whose index entry is already Finished is not
   recorded again by any event (replaying Applied(Finished(s, e)) writes
   nothing); and when an event records Finished for a pod, the index then
   holds that Finished value if the pod was applied (alone or in a resync
   list) and no entry if the pod was deleted or missing from the list. *)
C1_RecordedOnce ==
    pc = "done" =>
        \A n \in PodNames :
            /\ Len(CallsOf(n)) <= 1
            /\ (pre[n].tag = "Finished" => CallsOf(n) = <<>>)
            /\ (RecordedFinished(n) =>
                    owned_pods[n] = IF evt.kind = "Deleted" \/ n \notin Listed
                                    THEN NoEntry
                                    ELSE CallsOf(n)[1].data)

\* C1, witness: the same Applied(Finished(s, e)) replayed over the entry the
\* first one left.
C1_Witness ==
    /\ Handled("Applied")
    /\ Observed.tag = "Finished"
    /\ pre[ThePod.name] = Observed
    /\ owned_pods[ThePod.name] = Observed
    /\ calls = <<>>

(* C1 as stated: once an event closes the lifecycle of a pod tracked as
   Running and records it, the pod is recorded exactly once and has no index
   entry. *)
C1_AsStated ==
    pc = "done" =>
        \A n \in PodNames :
            pre[n].tag = "Running" /\ RecordedFinished(n) =>
                Len(CallsOf(n)) = 1 /\ owned_pods[n] = NoEntry

\* The terminal transition of an Applied event: the tracked run ends.
TerminalApplied ==
    /\ Handled("Applied")
    /\ pre[ThePod.name].tag = "Running"
    /\ Observed.tag = "Finished"
    /\ Observed.start_ts = pre[ThePod.name].start_ts

(* C2: when the index holds Running(s) and Applied observes Finished(s, e),
   the store is called exactly once with (name, chain, Finished(s, e)), and
   the index entry becomes Finished(s, e). *)
C2_TerminalRecorded ==
    TerminalApplied =>
        /\ result
        /\ calls = <<Call(ThePod.name, Observed)>>
        /\ owned_pods = [pre EXCEPT ![ThePod.name] = Observed]

\* C2, witness: a terminal transition of the pod that has an owner chain.
C2_Witness ==
    /\ TerminalApplied
    /\ Len(calls) = 1
    /\ calls[1].owners = <<rsref, deplref>>

(* C2 as stated: after the terminal transition the store was called once and
   the pod has no entry in the index. *)
C2_AsStated ==
    TerminalApplied =>
        /\ calls = <<Call(ThePod.name, Observed)>>
        /\ owned_pods[ThePod.name] = NoEntry

(* C3: when the index holds Running(x) and Applied observes anything but
   Finished(x, _), the index is left as it was and the store is not
   called. *)
C3_MismatchIgnored ==
    (/\ Handled("Applied")
     /\ pre[ThePod.name].tag = "Running"
     /\ ~(Observed.tag = "Finished"
          /\ Observed.start_ts = pre[ThePod.name].start_ts)) =>
        /\ owned_pods = pre
        /\ calls = <<>>
        /\ result

\* C3, witness: a finished container of another start than the tracked one.
C3_Witness ==
    /\ Handled("Applied")
    /\ pre[ThePod.name].tag = "Running"
    /\ Observed.tag = "Finished"
    /\ Observed.start_ts # pre[ThePod.name].start_ts
    /\ owned_pods[ThePod.name] = pre[ThePod.name]

\* A Deleted event for a pod tracked as Running.
DeletedRunning ==
    /\ Handled("Deleted")
    /\ pre[ThePod.name].tag = "Running"

\* The deleted pod's status is of the tracked run: no status, or a container
\* with the tracked start.
OfTrackedRun ==
    \/ ThePod.status.kind = "none"
    \/ /\ ThePod.status.kind \in {"running", "finished"}
       /\ ThePod.status.start_ts = pre[ThePod.name].start_ts

(* C4: when the index holds Running(s) and the pod is deleted at clock time
   t, the store is called exactly once and the entry is removed; the record
   is Finished(s, t) when the deleted pod carries no status or a running
   container started at s, and Finished(s, e) when it carries a container
   that started at s and finished at e. *)
C4_DeletedRunning ==
    DeletedRunning /\ OfTrackedRun =>
        /\ result
        /\ owned_pods = [pre EXCEPT ![ThePod.name] = NoEntry]
        /\ calls = <<Call(ThePod.name,
                          IF ThePod.status.kind = "finished"
                          THEN Finished(pre[ThePod.name].start_ts, ThePod.status.end_ts)
                          ELSE Finished(pre[ThePod.name].start_ts, clock))>>

\* C4, witness: a metadata-only delete closed by a clock that differs from
\* the start.
C4_Witness ==
    /\ DeletedRunning
    /\ ThePod.status.kind = "none"
    /\ clock # pre[ThePod.name].start_ts
    /\ Len(calls) = 1

(* C4 as stated: the record is Finished(s, t), t the clock time, whatever
   status the deleted pod carries. *)
C4_AsStated ==
    DeletedRunning =>
        /\ owned_pods[ThePod.name] = NoEntry
        /\ calls = <<Call(ThePod.name, Finished(pre[ThePod.name].start_ts, clock))>>

(* C5: a Deleted event for a pod without an index entry changes nothing: the
   index is as before, the store is not called, the handler succeeds. *)
C5_DeletedUntracked ==
    Handled("Deleted") /\ pre[ThePod.name] = NoEntry =>
        /\ owned_pods = pre
        /\ calls = <<>>
        /\ result

\* C5, witness: an untracked pod deleted with a running container on it,
\* while another pod is tracked.
C5_Witness ==
    /\ Handled("Deleted")
    /\ pre[ThePod.name] = NoEntry
    /\ ThePod.status.kind = "running"
    /\ \E n \in PodNames : pre[n] # NoEntry

(* C6: after a Restarted(list) event handled with success at clock time t,
   every pod tracked as Running(s) that the list does not name is recorded
   exactly once, as Finished(s, t), and has no index entry; a pod the list
   names and shows still Running(s) keeps its Running(s) entry and is not
   recorded. *)
C6_Resync ==
    Handled("Restarted") /\ result =>
        /\ \A n \in PodNames \ Listed :
              pre[n].tag = "Running" =>
                  /\ CallsOf(n) = <<Call(n, Finished(pre[n].start_ts, clock))>>
                  /\ owned_pods[n] = NoEntry
        /\ \A i \in 1..Len(evt.pods) :
              pre[evt.pods[i].name].tag = "Running"
              /\ ObservedOf(i) = pre[evt.pods[i].name] =>
                  /\ owned_pods[evt.pods[i].name] = pre[evt.pods[i].name]
                  /\ CallsOf(evt.pods[i].name) = <<>>

\* C6, witness: a resync that lists one Running pod as still running and
\* misses another Running pod.
C6_Witness ==
    /\ Handled("Restarted") /\ result
    /\ Len(evt.pods) = 1
    /\ pre[ThePod.name].tag = "Running" /\ Observed = pre[ThePod.name]
    /\ \E n \in PodNames \ Listed :
          pre[n].tag = "Running" /\ owned_pods[n] = NoEntry /\ Len(calls) = 1

\* An Applied event for a pod the index does not hold.
AppliedUntracked == Handled("Applied") /\ pre[ThePod.name] = NoEntry

(* C7: an Applied event for a pod without an index entry: an Empty
   observation (no status, or unreadable status) leaves the pod without an
   entry, writes nothing and succeeds; an observation Running(s) or
   Finished(s, e), when the handler succeeds, is inserted into the index and
   recorded to the store once, as observed. *)
C7_FirstApplied ==
    AppliedUntracked =>
        IF Observed = Empty
        THEN owned_pods = pre /\ calls = <<>> /\ result
        ELSE result =>
                /\ owned_pods = [pre EXCEPT ![ThePod.name] = Observed]
                /\ Len(calls) = 1
                /\ calls = <<Call(ThePod.name, Observed)>>

\* C7, witness: the first observation of a running container.
C7_Witness ==
    /\ AppliedUntracked
    /\ Observed.tag = "Running"
    /\ result
    /\ owned_pods[ThePod.name] = Observed
    /\ Len(calls) = 1

(* C7 as stated: an Applied event for a pod without an index entry never
   calls the store; a non-empty observation is inserted, an empty one is not
   and the handler succeeds. *)
C7_AsStated ==
    AppliedUntracked =>
        /\ calls = <<>>
        /\ (Observed # Empty /\ result => owned_pods[ThePod.name] = Observed)
        /\ (Observed = Empty => owned_pods[ThePod.name] = NoEntry /\ result)

(* C8: every lifecycle value passed to record_pod_lifecycle is Running or
   Finished, never Empty; Running is passed only by the first observation
   of a pod (an Applied event, or a pod of a resync list), and a Deleted
   event passes Finished only. *)
C8_RecordedValues ==
    \A i \in 1..Len(calls) :
        /\ calls[i].data.tag \in {"Running", "Finished"}
        /\ (calls[i].data.tag = "Running" =>
                /\ evt.kind \in {"Applied", "Restarted"}
                /\ calls[i].name \in Listed
                /\ pre[calls[i].name] = NoEntry)

\* C8, witness: a resync that records a Running value and a Finished one.
C8_Witness ==
    /\ Handled("Restarted")
    /\ \E i, j \in 1..Len(calls) :
          calls[i].data.tag = "Running" /\ calls[j].data.tag = "Finished"

(* C8 as stated: every lifecycle value passed to record_pod_lifecycle is a
   Finished value. *)
C8_AsStated == \A i \in 1..Len(calls) : calls[i].data.tag = "Finished"

\* The listed pod at position i was handled as an Applied event would be.
HandledAsApplied(i) ==
    LET n == evt.pods[i].name
    IN  IF advances(ObservedOf(i), pre[n])
        THEN owned_pods[n] = ObservedOf(i) /\ CallsOf(n) = <<Call(n, ObservedOf(i))>>
        ELSE owned_pods[n] = pre[n] /\ CallsOf(n) = <<>>

Untouched(n) == owned_pods[n] = pre[n] /\ CallsOf(n) = <<>>

(* C9: when the owner chain cannot be resolved, the handler returns an
   error. An Applied or Deleted event then leaves the index and the store as
   they were. A Restarted event stops at the pod whose chain failed: that pod
   and every pod not yet handled keep their entries and nothing is recorded
   for them, while the listed pods handled before it keep what was done. *)
C9_FailedResolution ==
    pc = "done" /\ ~result =>
        IF evt.kind \in {"Applied", "Deleted"}
        THEN owned_pods = pre /\ calls = <<>>
        ELSE \E k \in 1..Len(evt.pods) :
                /\ advances(ObservedOf(k), pre[evt.pods[k].name])
                /\ \A i \in 1..(k - 1) : HandledAsApplied(i)
                /\ \A i \in k..Len(evt.pods) : Untouched(evt.pods[i].name)
                /\ \A n \in PodNames \ Listed : Untouched(n)

\* C9, witness: an Applied event fails while another pod is tracked.
C9_Witness ==
    /\ Handled("Applied") /\ ~result
    /\ Observed # Empty
    /\ \E n \in PodNames : pre[n] # NoEntry

(* C9 as stated: a failed resolution leaves the index and the store exactly
   as they were before the event. *)
C9_AsStated == pc = "done" /\ ~result => owned_pods = pre /\ calls = <<>>

(* C10: compute_owner_chain on an object whose name is in the cache succeeds
   with exactly the cached chain, fetches nothing from the API and leaves the
   cache as it was, whatever owner references the object carries. *)
C10_CacheHit ==
    oc_out.done /\ oc_in.name \in DOMAIN oc_in.cache =>
        /\ oc_out.ok
        /\ oc_out.chain = oc_in.cache[oc_in.name]
        /\ oc_out.fetched = <<>>
        /\ oc_out.cache = oc_in.cache

\* C10, witness: the cached chain is not what the object's owner references
\* lead to, and the owner could not even be fetched.
C10_Witness ==
    /\ oc_out.done
    /\ oc_in.name \in DOMAIN oc_in.cache
    /\ oc_in.owners = <<rsref>>
    /\ oc_in.cache[oc_in.name] = <<deplref>>
    /\ ~oc_in.api["rs"].found
    /\ oc_out.chain = <<deplref>>

\* The first owner reference of the object and of each ancestor in turn, as
\* the API serves them, nearest first; and whether every one can be fetched.
RECURSIVE FirstOwners(_, _)
FirstOwners(api, owners) ==
    IF owners = <<>> THEN <<>>
    ELSE <<owners[1]>> \o FirstOwners(api, api[owners[1].name].owners)

RECURSIVE AllFetchable(_, _)
AllFetchable(api, owners) ==
    owners = <<>>
    \/ (api[owners[1].name].found /\ AllFetchable(api, api[owners[1].name].owners))

ResolvedCold ==
    /\ oc_out.done
    /\ oc_in.cache = EmptyCache
    /\ AllFetchable(oc_in.api, oc_in.owners)

(* C11: with an empty cache and every ancestor fetchable, compute_owner_chain
   returns the first owner references nearest ancestor first (the object's
   first owner, then that owner's first owner, ...; empty without owners),
   and afterwards the cache holds that chain under the object's name and,
   under each ancestor's name, the rest of the chain above it. *)
C11_ColdChain ==
    ResolvedCold =>
        LET chain == FirstOwners(oc_in.api, oc_in.owners)
        IN  /\ oc_out.ok
            /\ oc_out.chain = chain
            /\ DOMAIN oc_out.cache =
                   {oc_in.name} \cup {chain[i].name : i \in 1..Len(chain)}
            /\ oc_out.cache[oc_in.name] = chain
            /\ \A i \in 1..Len(chain) :
                   oc_out.cache[chain[i].name] = SubSeq(chain, i + 1, Len(chain))
            /\ oc_out.fetched = [i \in 1..Len(chain) |-> chain[i].name]

\* C11, witness: pod -> ReplicaSet -> Deployment.
C11_Witness ==
    /\ ResolvedCold
    /\ oc_in.owners = <<rsref>>
    /\ oc_out.chain = <<rsref, deplref>>
    /\ oc_out.cache["rs"] = <<deplref>>
    /\ oc_out.cache["depl"] = <<>>

(* C16: when the index holds Finished(...) for a pod and the pod is deleted,
   the entry is removed, the other entries are left alone and the store is
   not called, whatever the clock reads and whatever status the deleted pod
   carries. *)
C16_DeletedFinished ==
    Handled("Deleted") /\ pre[ThePod.name].tag = "Finished" =>
        /\ owned_pods = [pre EXCEPT ![ThePod.name] = NoEntry]
        /\ calls = <<>>
        /\ result

\* C16, witness: the deleted pod carries a status that does not match the
\* stored interval, and the clock is past the stored end.
C16_Witness ==
    /\ Handled("Deleted")
    /\ pre[ThePod.name].tag = "Finished"
    /\ ThePod.status.kind = "running"
    /\ ThePod.status.start_ts # pre[ThePod.name].start_ts
    /\ clock > pre[ThePod.name].end_ts
    /\ owned_pods[ThePod.name] = NoEntry

(* C17: when the index holds Running(s) and the deleted pod carries a
   container that started at s and finished at e, Finished(s, e), with the
   pod's own e and not the clock's reading, is recorded exactly once and the
   pod is removed from the index. *)
C17_DeletedWithFinishedStatus ==
    (/\ DeletedRunning
     /\ ThePod.status.kind = "finished"
     /\ ThePod.status.start_ts = pre[ThePod.name].start_ts) =>
        /\ result
        /\ Len(calls) = 1
        /\ calls = <<Call(ThePod.name, Finished(ThePod.status.start_ts,
                                               ThePod.status.end_ts))>>
        /\ owned_pods = [pre EXCEPT ![ThePod.name] = NoEntry]

\* C17, witness: the clock reads later than the container's end.
C17_Witness ==
    /\ DeletedRunning
    /\ ThePod.status.kind = "finished"
    /\ ThePod.status.start_ts = pre[ThePod.name].start_ts
    /\ clock > ThePod.status.end_ts
    /\ Len(calls) = 1
    /\ calls[1].data.end_ts = ThePod.status.end_ts

(* C18: the index never holds Empty. After an event, a Finished entry is
   one that was there before the event or one that this event observed on an
   applied (or listed) pod and recorded; after a Deleted event the deleted
   pod has no entry, and after a Restarted event handled with success no pod
   off the list has one. *)
C18_IndexContents ==
    /\ \A n \in PodNames : owned_pods[n].tag \in {"None", "Running", "Finished"}
    /\ pc = "done" =>
        /\ \A n \in PodNames :
              owned_pods[n].tag = "Finished" =>
                  \/ pre[n] = owned_pods[n]
                  \/ /\ evt.kind \in {"Applied", "Restarted"}
                     /\ n \in Listed
                     /\ Len(CallsOf(n)) = 1
                     /\ CallsOf(n) = <<Call(n, owned_pods[n])>>
        /\ (evt.kind = "Deleted" => owned_pods[ThePod.name] = NoEntry)
        /\ (evt.kind = "Restarted" /\ result =>
                \A n \in PodNames \ Listed : owned_pods[n] = NoEntry)

\* C18, witness: a resync that lists a tracked Running pod as finished and
\* leaves its Finished entry behind.
C18_Witness ==
    /\ Handled("Restarted") /\ result
    /\ \E i \in 1..Len(evt.pods) :
          /\ pre[evt.pods[i].name].tag = "Running"
          /\ ObservedOf(i).tag = "Finished"
          /\ owned_pods[evt.pods[i].name] = ObservedOf(i)

(* C18 as stated: after an event has been handled, no pod that was running
   before it has a Finished entry in the index. *)
C18_AsStated ==
    pc = "done" =>
        \A n \in PodNames : pre[n].tag = "Running" => owned_pods[n].tag # "Finished"

(* C19: every Finished(start_ts, end_ts) recorded to the store or held in
   the index has start_ts <= end_ts. *)
C19_StartBeforeEnd ==
    /\ \A i \in 1..Len(calls) :
          calls[i].data.tag = "Finished" => calls[i].data.start_ts <= calls[i].data.end_ts
    /\ \A n \in PodNames :
          owned_pods[n].tag = "Finished" => owned_pods[n].start_ts <= owned_pods[n].end_ts

(* ------------------------ the snapshot command ------------------------- *)

WritesBy(entries, t) == SelectSeq(entries, LAMBDA e : e.by = t)

(* C12: cmd reads the store only after it has, in this order, started both
   tasks, received both readiness signals, aborted both tasks and awaited
   both handles; at every statement the earlier ones have had their effect
   (a received signal was sent, an awaited task is over), and from the export
   on no task holds the lock or writes: the store stays what export read. *)
C12_ExportAfterJoin ==
    /\ Len(trail) = main_pc - 1
    /\ \A i \in 1..Len(trail) :
          /\ trail[i].op = cmd[i].op /\ trail[i].t = cmd[i].t
          /\ trail[i].op = "spawn" => task[trail[i].t].st # "unspawned"
          /\ trail[i].op = "recv" => trail[i].ok /\ Signalled(trail[i].t)
          /\ trail[i].op = "abort" => task[trail[i].t].aborted
          /\ trail[i].op = "await" => task[trail[i].t].st = "cancelled"
    /\ exported.read =>
          /\ Len(trail) = Len(cmd)
          /\ \A t \in Tasks : task[t].st = "cancelled"
          /\ store_lock = "none"
          /\ trace_store = exported.entries

\* C12, witness: the export has read a store that both tasks wrote to.
C12_Witness ==
    /\ exported.read
    /\ \A t \in Tasks : WritesBy(exported.entries, t) # <<>>

(* C13: at most one task is inside a mutator, and it is the holder of the
   lock; the store is the completed writes in the order they completed,
   followed, while a task is inside, by at most that task's write in
   progress; what a reader gets holds whole writes only, and a cancelled task
   leaves no write of its own in progress. *)
C13_StoreExclusive ==
    LET inside == {t \in Tasks : task[t].st \in {"locked", "half"}}
        whole == SelectSeq(trace_store, LAMBDA e : e.whole)
        partial == SelectSeq(trace_store, LAMBDA e : ~e.whole)
    IN  /\ Cardinality(inside) <= 1
        /\ inside = {store_lock} \cap Tasks
        /\ whole = completed
        /\ trace_store = whole \o partial
        /\ Len(partial) <= 1
        /\ \A i \in 1..Len(partial) : task[partial[i].by].st = "half"
        /\ \A i \in 1..Len(exported.entries) : exported.entries[i].whole
        /\ \A t \in Tasks :
              task[t].st = "cancelled" =>
                  Len(WritesBy(completed, t)) = task[t].writes

\* C13, witness: the tasks' writes interleave, and a task is cancelled in the
\* middle of an event, between two of its writes.
C13_Witness ==
    /\ Len(completed) = 3
    /\ completed[1].by # completed[2].by
    /\ completed[2].by # completed[3].by
    /\ \E t \in Tasks :
          /\ task[t].st = "cancelled" /\ task[t].cut = "resolving"
          /\ task[t].writes = 1

(* C20: if each watcher task eventually sends its readiness signal, cmd
   eventually gets what export returns. *)
C20_ReachesExport ==
    (\A t \in Tasks : <>Signalled(t)) => <>exported.read

\* C20, witness: the pod watcher's signal came first, a task was aborted in
\* the middle of an event, and the export was reached.
C20_Witness ==
    /\ exported.read
    /\ signals = <<"pod", "do">>
    /\ \E t \in Tasks : task[t].cut = "resolving"

(* ------------------------------- export -------------------------------- *)

Count(entries, e) == Cardinality({i \in 1..Len(entries) : entries[i] = e})

(* C14: export leaves the store as it was, and calls with the same arguments
   on the store return the same blob. *)
C14_ExportPure ==
    /\ ex_store = ex_args.store
    /\ \A i, j \in 1..Len(ex_out) : ex_out[i] = ex_out[j]

\* C14, witness: two calls, whose blob holds a part of the store.
C14_Witness ==
    /\ Len(ex_out) = MaxCalls
    /\ ex_out[1].records # <<>>
    /\ Len(ex_out[1].records) < Len(ex_store)

\* What the filters and the window keep of the store.
Kept(e) ==
    /\ e.start_ts <= ex_args.end_ts /\ ex_args.start_ts <= e.end_ts
    /\ e.subject.ns \notin ex_args.filters.excluded_namespaces
    /\ \A l \in e.subject.labels : l \notin ex_args.filters.excluded_labels
    /\ ~(/\ ex_args.filters.exclude_daemonsets
         /\ e.subject.kind = "pod"
         /\ \E i \in 1..Len(e.subject.owners) : e.subject.owners[i] = dsref)

(* C15: the blob holds every stored entry that overlaps the window and that
   no filter excludes, as many times as the store holds it, nothing else,
   and in the order of the entries' times. *)
C15_ExportFiltered ==
    \A k \in 1..Len(ex_out) :
        LET records == ex_out[k].records
        IN  /\ \A e \in StoreEntries :
                  Count(records, e) = IF Kept(e) THEN Count(ex_args.store, e) ELSE 0
            /\ \A i \in 1..Len(records) - 1 : records[i].start_ts <= records[i + 1].start_ts

\* C15, witness: a DaemonSet's pod inside the window is dropped, and the
\* entry recorded after it is exported.
C15_Witness ==
    /\ Len(ex_out) > 0
    /\ Len(ex_args.store) = 2
    /\ ex_args.filters.exclude_daemonsets
    /\ ex_args.store[1].subject.owners = <<dsref>>
    /\ overlaps(ex_args.store[1], ex_args.start_ts, ex_args.end_ts)
    /\ ex_out[1].records = <<ex_args.store[2]>>

====
